---- MODULE Spec2Model ----
(***************************************************************************)
(* Model of src/openclose.c of the ROCT thunk library (libhsakmt): the     *)
(* reference-counted open/close of /dev/kfd, the fork detection and the    *)
(* pthread_atfork callbacks.                                               *)
(*                                                                         *)
(* The model follows ONE process at a time.  A fork step continues in the  *)
(* child: the child inherits the globals, the descriptor table and the     *)
(* state of hsakmt_mutex, and only the forking thread exists in it.  The   *)
(* parent branch of a fork is the step parent_fork.                        *)
(*                                                                         *)
(* hsaKmtOpenKFD and hsaKmtCloseKFD are each two steps per thread: the     *)
(* pthread_mutex_lock at their top (a blocking point), and the rest of the *)
(* function up to and including pthread_mutex_unlock.                      *)
(***************************************************************************)
EXTENDS Integers, Sequences, FiniteSets, TLC

\* ------------------------------------------------------------------ bounds
NumThreads == 2      \* threads of the process that call the library
MaxCount   == 3      \* cap on kfd_open_count (guard of the lock step of open)
MaxForks   == 2      \* cap on the number of forks followed into the child
MaxNodes   == 2      \* sys_props.NumNodes is drawn from 1..MaxNodes

Threads == 1..NumThreads

\* ------------------------------------------------------- program constants
\* The HSAKMT_DEBUG_LEVEL_* values and CHIP_LAST are declared in libhsakmt.h,
\* which openclose.c includes; openclose.c only compares against them.  The
\* model depends on their order alone: DEFAULT < ERR <= DEBUG, and CHIP_LAST
\* above the family ids of the environments below.
HSAKMT_DEBUG_LEVEL_DEFAULT == -1
HSAKMT_DEBUG_LEVEL_ERR     == 3
HSAKMT_DEBUG_LEVEL_DEBUG   == 7
CHIP_LAST                  == 18
MAJOR_MAX                  == 63
MINOR_MAX                  == 255
STEP_MAX                   == 255
FIRST_FREE_FD              == 3     \* 0, 1, 2 are the standard streams

\* HSAKMT_STATUS values returned by the two entry points.
SUCCESS        == "HSAKMT_STATUS_SUCCESS"
ERROR          == "HSAKMT_STATUS_ERROR"
NOT_OPENED     == "HSAKMT_STATUS_KERNEL_IO_CHANNEL_NOT_OPENED"
ALREADY_OPENED == "HSAKMT_STATUS_KERNEL_ALREADY_OPENED"
\* The non-success status a collaborator returns; one tag per collaborator,
\* so that "which error was returned" identifies the collaborator.
E_TOPOLOGY     == "status_of_topology_sysfs_get_system_props"
E_APERTURES    == "status_of_fmm_init_process_apertures"
E_DOORBELLS    == "status_of_init_process_doorbells"

\* hsakmt_mutex: 0 = unlocked, t \in Threads = locked by t, OwnerGone =
\* locked by a thread of the parent that does not exist in this process.
Unlocked  == 0
OwnerGone == -1

VARIABLES
  kfd_open_count,     \* globals: reference count
  kfd_fd,             \* globals: the recorded descriptor, 0 = none
  parent_pid,         \* static pid_t parent_pid, -1 = unset
  hsakmt_forked,      \* bool hsakmt_forked
  atfork_installed,   \* static bool in hsaKmtOpenKFD
  hsakmt_mutex,       \* owner of the session lock
  cfg,                \* hsakmt_debug_level, zfb_support, force_asic*
  cur_pid,            \* what getpid() returns in the process followed
  forks,              \* number of forks followed so far
  openFds,            \* descriptors open in this process
  badClose,           \* descriptors on which close() was called while not open
  dblOpen,            \* open() succeeded while an earlier device fd was open
  pc,                 \* per thread: "idle", "open", "close", "atfork"
  last,               \* observation of the most recent completed step
  run,                \* observation of the call sequence since Init
  fresh,              \* a fork happened and no open() has completed since
  since               \* the open() calls completed since the last close(),
                      \* fork or Init: "none", "failed" (all of them
                      \* returned an error) or "ok"

vars == <<kfd_open_count, kfd_fd, parent_pid, hsakmt_forked, atfork_installed,
          hsakmt_mutex, cfg, cur_pid, forks, openFds, badClose, dblOpen, pc,
          last, run, fresh, since>>

\* ------------------------------------------------------------ environment
\* getenv(name): [set |-> FALSE] when the variable is absent, else its text.
\* The text of HSAKMT_DEBUG_LEVEL and HSA_ZFB is one token; the text of
\* HSA_FORCE_ASIC_TYPE is its sequence of fields (the first three are
\* separated by '.', the others by white space).  A token is a number
\* [num |-> TRUE, v |-> n] or a word [num |-> FALSE, s |-> "..."].
Num(n)  == [num |-> TRUE,  v |-> n, s |-> ""]
Word(w) == [num |-> FALSE, v |-> 0, s |-> w]
Unset   == [set |-> FALSE, txt |-> <<>>]
Text(f) == [set |-> TRUE,  txt |-> f]

\* atoi(3): the leading number of the text, 0 when there is none.
atoi(tok) == IF tok.num THEN tok.v ELSE 0

\* The name %63s stores for a field: any non-blank token converts.
TokenText(tok) == IF tok.num THEN "digits" ELSE tok.s

\* sscanf(envvar, "%u.%u.%u %u %63s %u", ...): converts the fields in order
\* and stops at the first one that does not match; returns the number of
\* conversions, and has stored the converted fields only.  Fields after the
\* sixth are not looked at.
RECURSIVE Converted(_, _)
Converted(f, i) ==
  IF i > 6 \/ i > Len(f) THEN i - 1
  ELSE IF i # 5 /\ ~f[i].num THEN i - 1
  ELSE Converted(f, i + 1)

sscanf(f) ==
  LET n == Converted(f, 1) IN
  [n |-> n,
   major |-> IF n >= 1 THEN f[1].v ELSE 0,
   minor |-> IF n >= 2 THEN f[2].v ELSE 0,
   step  |-> IF n >= 3 THEN f[3].v ELSE 0,
   dgpu  |-> IF n >= 4 THEN f[4].v ELSE 0,
   name_stored |-> n >= 5,
   name  |-> IF n >= 5 THEN TokenText(f[5]) ELSE "",
   family |-> IF n >= 6 THEN f[6].v ELSE 0]

\* The configuration globals before the first call (zero-initialised).
CfgZero ==
  [hsakmt_debug_level |-> 0, zfb_support |-> 0, force_asic |-> 0,
   major |-> 0, minor |-> 0, stepping |-> 0, is_dgpu |-> 0,
   asic_family |-> 0, force_asic_name |-> ""]

\* Variant of init_vars_from_env: the converted numbers are stored in
\* force_asic_entry before they are validated.
init_vars_from_env_StoreFirst(e, c) ==
  LET lvl == IF e.debug.set THEN atoi(e.debug.txt[1]) ELSE 0
      c1 == [c EXCEPT !.hsakmt_debug_level =
               IF e.debug.set /\ lvl >= HSAKMT_DEBUG_LEVEL_ERR
                              /\ lvl <= HSAKMT_DEBUG_LEVEL_DEBUG
               THEN lvl ELSE HSAKMT_DEBUG_LEVEL_DEFAULT]
      c2 == IF e.zfb.set THEN [c1 EXCEPT !.zfb_support = atoi(e.zfb.txt[1])]
            ELSE c1
  IN IF ~e.force.set THEN [status |-> SUCCESS, cfg |-> c2]
     ELSE
       LET p  == sscanf(e.force.txt)
           c3 == IF p.name_stored THEN [c2 EXCEPT !.force_asic_name = p.name]
                 ELSE c2
           c4 == [c3 EXCEPT !.major = p.major, !.minor = p.minor,
                            !.stepping = p.step, !.is_dgpu = p.dgpu,
                            !.asic_family = p.family]
       IN IF p.n # 6
             \/ (p.major > MAJOR_MAX \/ p.minor > MINOR_MAX \/ p.step > STEP_MAX)
             \/ p.dgpu > 1 \/ p.family >= CHIP_LAST
          THEN [status |-> ERROR, cfg |-> c4]
          ELSE [status |-> SUCCESS, cfg |-> [c4 EXCEPT !.force_asic = 1]]

\* init_vars_from_env: e is the environment, c the configuration globals.
\* Returns the status and the globals after the call.
init_vars_from_env(e, c) ==
  LET lvl == IF e.debug.set THEN atoi(e.debug.txt[1]) ELSE 0
      c1 == [c EXCEPT !.hsakmt_debug_level =
               IF e.debug.set /\ lvl >= HSAKMT_DEBUG_LEVEL_ERR
                              /\ lvl <= HSAKMT_DEBUG_LEVEL_DEBUG
               THEN lvl ELSE HSAKMT_DEBUG_LEVEL_DEFAULT]
      c2 == IF e.zfb.set THEN [c1 EXCEPT !.zfb_support = atoi(e.zfb.txt[1])]
            ELSE c1
  IN IF ~e.force.set THEN [status |-> SUCCESS, cfg |-> c2]
     ELSE
       LET p  == sscanf(e.force.txt)
           c3 == IF p.name_stored THEN [c2 EXCEPT !.force_asic_name = p.name]
                 ELSE c2
       IN IF p.n # 6
             \/ (p.major > MAJOR_MAX \/ p.minor > MINOR_MAX \/ p.step > STEP_MAX)
             \/ p.dgpu > 1 \/ p.family >= CHIP_LAST
          THEN [status |-> ERROR, cfg |-> c3]
          ELSE [status |-> SUCCESS,
                cfg |-> [c3 EXCEPT !.major = p.major, !.minor = p.minor,
                                   !.stepping = p.step, !.is_dgpu = p.dgpu,
                                   !.asic_family = p.family, !.force_asic = 1]]

\* Environments an open() may find (the application may change its
\* environment between calls).
EnvNone == [debug |-> Unset, zfb |-> Unset, force |-> Unset]
EnvNavi == [debug |-> Text(<<Num(7)>>), zfb |-> Text(<<Num(1)>>),
            force |-> Text(<<Num(10), Num(1), Num(0), Num(1), Word("Navi10"), Num(14)>>)]
EnvFive == [debug |-> Unset, zfb |-> Unset,
            force |-> Text(<<Num(10), Num(1), Num(0), Num(1), Word("Navi10")>>)]
EnvSet  == {EnvNone, EnvNavi, EnvFive}

\* ---------------------------------------------------------- session state
\* The globals as one record, with the calls made so far by the running
\* entry point (trace: <<function, argument>>) and its return value.
Session ==
  [kfd_open_count |-> kfd_open_count, kfd_fd |-> kfd_fd,
   parent_pid |-> parent_pid, hsakmt_forked |-> hsakmt_forked,
   atfork_installed |-> atfork_installed, cfg |-> cfg, cur_pid |-> cur_pid,
   openFds |-> openFds, badClose |-> badClose, dblOpen |-> dblOpen,
   trace |-> <<>>, result |-> SUCCESS]

Call(s, f, arg) == [s EXCEPT !.trace = Append(@, <<f, arg>>)]

\* open(2) returns the lowest descriptor that is not open.
RECURSIVE LowestFree(_, _)
LowestFree(fds, n) == IF n \in fds THEN LowestFree(fds, n + 1) ELSE n

\* open(kfd_device_name, O_RDWR | O_CLOEXEC) that succeeds.
sys_open(s) ==
  LET fd == LowestFree(s.openFds, FIRST_FREE_FD) IN
  [Call(s, "open", 0) EXCEPT !.openFds = @ \cup {fd},
                             !.dblOpen = @ \/ (s.openFds # {})]

\* close(fd): releases fd when it is open, EBADF otherwise.
sys_close(s, fd) ==
  IF fd \in s.openFds
  THEN [Call(s, "close", fd) EXCEPT !.openFds = @ \ {fd}]
  ELSE [Call(s, "close", fd) EXCEPT !.badClose = @ \cup {fd}]

\* is_forked_child: the return value and the globals after the call.
is_forked_child(s) ==
  IF s.hsakmt_forked THEN [ret |-> TRUE, s |-> s]
  ELSE IF s.parent_pid = -1
       THEN [ret |-> FALSE, s |-> [s EXCEPT !.parent_pid = s.cur_pid]]
  ELSE IF s.parent_pid # s.cur_pid
       THEN [ret |-> TRUE, s |-> [s EXCEPT !.hsakmt_forked = TRUE]]
  ELSE [ret |-> FALSE, s |-> s]

\* clear_after_fork
clear_after_fork(s) ==
  LET s1 == Call(s,  "clear_process_doorbells", 0)
      s2 == Call(s1, "clear_events_page", 0)
      s3 == Call(s2, "fmm_clear_all_mem", 0)
      s4 == Call(s3, "destroy_device_debugging_memory", 0)
      s5 == IF s4.kfd_fd # 0
            THEN [sys_close(s4, s4.kfd_fd) EXCEPT !.kfd_fd = 0]
            ELSE s4
  IN [s5 EXCEPT !.kfd_open_count = 0, !.parent_pid = -1,
                !.hsakmt_forked = FALSE]

\* The inputs of one hsaKmtOpenKFD call: the environment, whether the device
\* open and each collaborator succeed, and the node count topology reports.
\* A collaborator that is not called has no outcome: the inputs of the steps
\* after the first one that ends the sequence are fixed (TRUE, one node).
Later(f) ==
  CASE f = "devOk"   -> {"devOk", "topoOk", "apertOk", "doorOk", "dbgOk", "cntOk"}
    [] f = "topoOk"  -> {"topoOk", "apertOk", "doorOk", "dbgOk", "cntOk"}
    [] f = "apertOk" -> {"apertOk", "doorOk", "dbgOk", "cntOk"}
    [] f = "doorOk"  -> {"doorOk", "dbgOk", "cntOk"}
    [] OTHER         -> {f}
Rest(in, fields) == \A f \in fields : \A g \in Later(f) : in[g] = TRUE
OpenInputs ==
  {in \in [env : EnvSet, devOk : BOOLEAN, topoOk : BOOLEAN,
           nodes : 1..MaxNodes, apertOk : BOOLEAN, doorOk : BOOLEAN,
           dbgOk : BOOLEAN, cntOk : BOOLEAN] :
     /\ init_vars_from_env(in.env, CfgZero).status # SUCCESS
          => in.nodes = 1 /\ Rest(in, {"devOk"})
     /\ ~in.devOk   => in.nodes = 1 /\ Rest(in, {"topoOk"})
     /\ ~in.topoOk  => in.nodes = 1 /\ Rest(in, {"apertOk"})
     /\ ~in.apertOk => Rest(in, {"doorOk"})
     /\ ~in.doorOk  => Rest(in, {"dbgOk", "cntOk"})}

\* The inputs drawn for a call made in state s: none of them is consulted
\* when the call takes the branch kfd_open_count != 0.
NoFailure ==
  [env |-> EnvNone, devOk |-> TRUE, topoOk |-> TRUE, nodes |-> 1,
   apertOk |-> TRUE, doorOk |-> TRUE, dbgOk |-> TRUE, cntOk |-> TRUE]
InputsFor(s) ==
  IF s.kfd_open_count = 0 \/ s.hsakmt_forked
     \/ (s.parent_pid # -1 /\ s.parent_pid # s.cur_pid)
  THEN OpenInputs ELSE {NoFailure}

\* The rollback labels at the end of hsaKmtOpenKFD, without the unlock.
topology_sysfs_failed(s, fd) == sys_close(s, fd)
init_process_aperture_failed(s, fd) == topology_sysfs_failed(s, fd)
\* Variant of init_doorbell_failed: the jump goes one label too far.
init_doorbell_failed_WrongLabel(s, fd) == init_process_aperture_failed(s, fd)

init_doorbell_failed(s, fd) ==
  init_process_aperture_failed(Call(s, "fmm_destroy_process_apertures", 0), fd)

\* pthread_atfork(...) guarded by the static atfork_installed.
\* Variant of install_atfork: the static flag is not tested.
install_atfork_EveryOpen(s) ==
  [Call(s, "pthread_atfork", 0) EXCEPT !.atfork_installed = TRUE]

\* pthread_atfork under the static flag atfork_installed.
install_atfork(s) ==
  IF ~s.atfork_installed
  THEN [Call(s, "pthread_atfork", 0) EXCEPT !.atfork_installed = TRUE]
  ELSE s

\* Variant of after_doorbells: the status of init_device_debugging_memory is
\* stored in result.
after_doorbells_KeepDebugStatus(s, in) ==
  LET g == Call([s EXCEPT !.result = IF in.dbgOk THEN SUCCESS ELSE ERROR],
                "init_device_debugging_memory", in.nodes)
      c == Call(g, "init_counter_props", in.nodes)
  IN install_atfork(c)

\* hsaKmtOpenKFD after init_process_doorbells succeeded: the status of
\* init_device_debugging_memory only selects a warning, the value of
\* init_counter_props is not used, and result keeps the doorbells' status.
after_doorbells(s, in) ==
  LET g == Call(s, "init_device_debugging_memory", in.nodes)
      c == Call(g, "init_counter_props", in.nodes)
  IN install_atfork(c)

\* The init chain, from topology_sysfs_get_system_props to the end of the
\* then-branch; fd is the local holding the descriptor just opened.
init_chain(s, in, fd) ==
  LET t == Call(s, "topology_sysfs_get_system_props", 0) IN
  IF ~in.topoOk THEN topology_sysfs_failed([t EXCEPT !.result = E_TOPOLOGY], fd)
  ELSE
  LET a == Call(t, "fmm_init_process_apertures", in.nodes) IN
  IF ~in.apertOk
  THEN init_process_aperture_failed([a EXCEPT !.result = E_APERTURES], fd)
  ELSE
  LET d == Call(a, "init_process_doorbells", in.nodes) IN
  IF ~in.doorOk THEN init_doorbell_failed([d EXCEPT !.result = E_DOORBELLS], fd)
  ELSE after_doorbells([d EXCEPT !.result = SUCCESS], in)

\* Variant of open_first: the status of init_vars_from_env is not tested.
open_first_IgnoreCfg(s, in) ==
  LET v  == init_vars_from_env(in.env, s.cfg)
      s1 == [Call(s, "init_vars_from_env", 0) EXCEPT !.cfg = v.cfg,
                                                     !.result = v.status]
  IN IF ~in.devOk THEN [Call(s1, "open", 0) EXCEPT !.result = NOT_OPENED]
     ELSE LET o  == sys_open(s1)
              fd == LowestFree(s1.openFds, FIRST_FREE_FD)
          IN init_chain([o EXCEPT !.kfd_fd = fd, !.kfd_open_count = 1], in, fd)

\* The branch kfd_open_count == 0 of hsaKmtOpenKFD.
open_first(s, in) ==
  LET v  == init_vars_from_env(in.env, s.cfg)
      s1 == [Call(s, "init_vars_from_env", 0) EXCEPT !.cfg = v.cfg,
                                                     !.result = v.status]
  IN IF v.status # SUCCESS THEN s1
     ELSE IF ~in.devOk THEN [Call(s1, "open", 0) EXCEPT !.result = NOT_OPENED]
     ELSE LET o  == sys_open(s1)
              fd == LowestFree(s1.openFds, FIRST_FREE_FD)
          IN init_chain([o EXCEPT !.kfd_fd = fd, !.kfd_open_count = 1], in, fd)

\* Variant of open_again: the topology is queried again.
open_again_Requery(s) ==
  [Call(s, "topology_sysfs_get_system_props", 0)
     EXCEPT !.kfd_open_count = @ + 1, !.result = ALREADY_OPENED]

\* Variant of open_again: the configuration globals are cleared.
open_again_ClearCfg(s) ==
  [s EXCEPT !.kfd_open_count = @ + 1, !.result = ALREADY_OPENED,
            !.cfg = CfgZero]

\* The branch kfd_open_count != 0 of hsaKmtOpenKFD.
open_again(s) ==
  [s EXCEPT !.kfd_open_count = @ + 1, !.result = ALREADY_OPENED]

\* hsaKmtOpenKFD between pthread_mutex_lock and pthread_mutex_unlock.
hsaKmtOpenKFD(s, in) ==
  LET f  == is_forked_child(s)
      s1 == IF f.ret THEN clear_after_fork(f.s) ELSE f.s
  IN IF s1.kfd_open_count = 0 THEN open_first(s1, in) ELSE open_again(s1)

\* Variant of close_last: the doorbells are destroyed before the debugging
\* memory.
close_last_DoorbellsFirst(s) ==
  LET s1 == Call(s,  "destroy_counter_props", 0)
      s2 == Call(s1, "destroy_process_doorbells", 0)
      s3 == Call(s2, "destroy_device_debugging_memory", 0)
      s4 == Call(s3, "fmm_destroy_process_apertures", 0)
  IN IF s4.kfd_fd # 0 THEN [sys_close(s4, s4.kfd_fd) EXCEPT !.kfd_fd = 0]
     ELSE s4

\* The teardown of the last close.
close_last(s) ==
  LET s1 == Call(s,  "destroy_counter_props", 0)
      s2 == Call(s1, "destroy_device_debugging_memory", 0)
      s3 == Call(s2, "destroy_process_doorbells", 0)
      s4 == Call(s3, "fmm_destroy_process_apertures", 0)
  IN IF s4.kfd_fd # 0 THEN [sys_close(s4, s4.kfd_fd) EXCEPT !.kfd_fd = 0]
     ELSE s4

\* Variant of hsaKmtCloseKFD: the teardown does not wait for the count to
\* reach zero.
hsaKmtCloseKFD_EveryClose(s) ==
  IF s.kfd_open_count > 0
  THEN close_last([s EXCEPT !.kfd_open_count = @ - 1, !.result = SUCCESS])
  ELSE [s EXCEPT !.result = NOT_OPENED]

\* Variant of hsaKmtCloseKFD: a close of a session that is not open is
\* treated as the last close.
hsaKmtCloseKFD_NoGuard(s) ==
  IF s.kfd_open_count > 1
  THEN [s EXCEPT !.kfd_open_count = @ - 1, !.result = SUCCESS]
  ELSE close_last([s EXCEPT !.kfd_open_count = 0, !.result = SUCCESS])

\* hsaKmtCloseKFD between pthread_mutex_lock and pthread_mutex_unlock.
hsaKmtCloseKFD(s) ==
  IF s.kfd_open_count > 0
  THEN LET d == [s EXCEPT !.kfd_open_count = @ - 1, !.result = SUCCESS]
       IN IF d.kfd_open_count = 0 THEN close_last(d) ELSE d
  ELSE [s EXCEPT !.result = NOT_OPENED]

\* ------------------------------------------------------------ observation
\* The first step of the acquisition sequence that fails under inputs in,
\* in the order the steps run; "none" when all succeed.
FirstFail(in, c) ==
  IF init_vars_from_env(in.env, c).status # SUCCESS THEN "cfg"
  ELSE IF ~in.devOk   THEN "dev"
  ELSE IF ~in.topoOk  THEN "topology"
  ELSE IF ~in.apertOk THEN "apertures"
  ELSE IF ~in.doorOk  THEN "doorbells"
  ELSE IF ~in.dbgOk   THEN "debug"
  ELSE IF ~in.cntOk   THEN "counters"
  ELSE "none"

Names(trace) == [i \in 1..Len(trace) |-> trace[i][1]]
Called(trace, f) == \E i \in 1..Len(trace) : trace[i][1] = f
Calls(trace, f) == Cardinality({i \in 1..Len(trace) : trace[i][1] = f})

NoLast ==
  [op |-> "none", result |-> SUCCESS, trace |-> <<>>, fail |-> "none",
   fresh |-> FALSE, pre_count |-> 0, pre_fd |-> 0]

\* What a completed step leaves in last: the step, its return value and
\* calls, the first failing input of an acquisition that ran, and
\* the globals before the step.
Observed(op, s, fail) ==
  [op |-> op, result |-> s.result, trace |-> s.trace,
   fail |-> IF Called(s.trace, "init_vars_from_env") THEN fail ELSE "none",
   fresh |-> fresh, pre_count |-> kfd_open_count, pre_fd |-> kfd_fd]

\* run: while the calls completed since Init are n open() calls followed by
\* m <= n close() calls, all by thread t, with no failing input and no fork:
\* their numbers, the open(2) and close(2) calls they made, and whether each
\* returned what is expected of it.  Any other history is "broken".
RunStart  == [shape |-> "opens", n |-> 0, m |-> 0, t |-> 0,
              devOpens |-> 0, devCloses |-> 0, ok |-> TRUE]
RunBroken == [shape |-> "broken", n |-> 0, m |-> 0, t |-> 0,
              devOpens |-> 0, devCloses |-> 0, ok |-> TRUE]

RunAfterOpen(r, t, s, fail) ==
  IF r.shape # "opens" \/ fail # "none" \/ (r.n > 0 /\ r.t # t) THEN RunBroken
  ELSE [r EXCEPT !.n = @ + 1, !.t = t,
                 !.devOpens  = @ + Calls(s.trace, "open"),
                 !.devCloses = @ + Calls(s.trace, "close"),
                 !.ok = @ /\ s.result = (IF r.n = 0 THEN SUCCESS
                                         ELSE ALREADY_OPENED)]

RunAfterClose(r, t, s) ==
  IF r.shape = "broken" \/ r.n = 0 \/ r.t # t \/ r.m = r.n THEN RunBroken
  ELSE [r EXCEPT !.shape = "closes", !.m = @ + 1,
                 !.devOpens  = @ + Calls(s.trace, "open"),
                 !.devCloses = @ + Calls(s.trace, "close"),
                 !.ok = @ /\ s.result = SUCCESS]

\* ----------------------------------------------------------------- actions
Init ==
  /\ kfd_open_count = 0
  /\ kfd_fd = 0
  /\ parent_pid = -1
  /\ hsakmt_forked = FALSE
  /\ atfork_installed = FALSE
  /\ hsakmt_mutex = Unlocked
  /\ cfg = CfgZero
  /\ cur_pid = 1
  /\ forks = 0
  /\ openFds = {}
  /\ badClose = {}
  /\ dblOpen = FALSE
  /\ pc = [t \in Threads |-> "idle"]
  /\ last = NoLast
  /\ run = RunStart
  /\ fresh = FALSE
  /\ since = "none"

\* The globals after an entry point has run.
Install(s) ==
  /\ kfd_open_count' = s.kfd_open_count
  /\ kfd_fd' = s.kfd_fd
  /\ parent_pid' = s.parent_pid
  /\ hsakmt_forked' = s.hsakmt_forked
  /\ atfork_installed' = s.atfork_installed
  /\ cfg' = s.cfg
  /\ openFds' = s.openFds
  /\ badClose' = s.badClose
  /\ dblOpen' = s.dblOpen

globals == <<kfd_open_count, kfd_fd, parent_pid, hsakmt_forked,
             atfork_installed, cfg, openFds, badClose, dblOpen>>

\* pthread_mutex_lock(&hsakmt_mutex) at the top of hsaKmtOpenKFD.
LockOpen(t) ==
  /\ pc[t] = "idle"
  /\ hsakmt_mutex = Unlocked
  /\ kfd_open_count < MaxCount
  /\ hsakmt_mutex' = t
  /\ pc' = [pc EXCEPT ![t] = "open"]
  /\ UNCHANGED <<globals, cur_pid, forks, last, run, fresh, since>>

\* The rest of hsaKmtOpenKFD, to its return.
OpenKFD(t) ==
  /\ pc[t] = "open"
  /\ \E in \in InputsFor(Session) :
       \E s \in {hsaKmtOpenKFD(Session, in)} :
         \E obs \in {Observed("open", s, FirstFail(in, cfg))} :
           /\ Install(s)
           /\ last' = obs
           /\ run' = RunAfterOpen(run, t, s, obs.fail)
           /\ since' = IF s.result \in {SUCCESS, ALREADY_OPENED} THEN "ok"
                       ELSE IF since = "ok" THEN "ok" ELSE "failed"
  /\ hsakmt_mutex' = Unlocked
  /\ pc' = [pc EXCEPT ![t] = "idle"]
  /\ fresh' = FALSE
  /\ UNCHANGED <<cur_pid, forks>>

\* Variant of LockClose: hsaKmtCloseKFD does not wait for the lock.
LockClose_NoWait(t) ==
  /\ pc[t] = "idle"
  /\ hsakmt_mutex' = t
  /\ pc' = [pc EXCEPT ![t] = "close"]
  /\ UNCHANGED <<globals, cur_pid, forks, last, run, fresh, since>>

\* pthread_mutex_lock(&hsakmt_mutex) at the top of hsaKmtCloseKFD.
LockClose(t) ==
  /\ pc[t] = "idle"
  /\ hsakmt_mutex = Unlocked
  /\ hsakmt_mutex' = t
  /\ pc' = [pc EXCEPT ![t] = "close"]
  /\ UNCHANGED <<globals, cur_pid, forks, last, run, fresh, since>>

\* The rest of hsaKmtCloseKFD, to its return.
CloseKFD(t) ==
  /\ pc[t] = "close"
  /\ \E s \in {hsaKmtCloseKFD(Session)} :
       /\ Install(s)
       /\ last' = Observed("close", s, "none")
       /\ run' = RunAfterClose(run, t, s)
       /\ since' = "none"
  /\ hsakmt_mutex' = Unlocked
  /\ pc' = [pc EXCEPT ![t] = "idle"]
  /\ UNCHANGED <<cur_pid, forks, fresh>>

\* fork() of libc by thread t once the handlers are installed: the prepare
\* handler runs first, in the parent.
prepare_fork_handler(t) ==
  /\ pc[t] = "idle"
  /\ atfork_installed
  /\ forks < MaxForks
  /\ hsakmt_mutex = Unlocked
  /\ hsakmt_mutex' = t
  /\ pc' = [pc EXCEPT ![t] = "atfork"]
  /\ UNCHANGED <<globals, cur_pid, forks, last, run, fresh, since>>

\* The parent's return from fork().
parent_fork_handler(t) ==
  /\ pc[t] = "atfork"
  /\ hsakmt_mutex' = Unlocked
  /\ pc' = [pc EXCEPT ![t] = "idle"]
  /\ last' = Observed("fork_parent", Session, "none")
  /\ run' = RunBroken
  /\ UNCHANGED <<globals, cur_pid, forks, fresh, since>>

\* The child's return from fork(): only thread t exists in the child.
child_fork_handler(t) ==
  /\ pc[t] = "atfork"
  /\ hsakmt_mutex' = Unlocked
  /\ hsakmt_forked' = TRUE
  /\ cur_pid' = cur_pid + 1
  /\ forks' = forks + 1
  /\ pc' = [u \in Threads |-> "idle"]
  /\ last' = Observed("fork_child", Session, "none")
  /\ run' = RunBroken
  /\ fresh' = TRUE
  /\ since' = "none"
  /\ UNCHANGED <<kfd_open_count, kfd_fd, parent_pid, atfork_installed, cfg,
                 openFds, badClose, dblOpen>>

\* fork() of libc by thread t before pthread_atfork was called, followed
\* into the child: no handler runs.  The child inherits the mutex as it is;
\* a lock held by another thread of the parent has no owner in the child.
fork_before_atfork(t) ==
  /\ pc[t] = "idle"
  /\ ~atfork_installed
  /\ forks < MaxForks
  /\ hsakmt_mutex' = IF hsakmt_mutex = Unlocked THEN Unlocked ELSE OwnerGone
  /\ cur_pid' = cur_pid + 1
  /\ forks' = forks + 1
  /\ pc' = [u \in Threads |-> "idle"]
  /\ last' = Observed("fork_libc", Session, "none")
  /\ run' = RunBroken
  /\ fresh' = TRUE
  /\ since' = "none"
  /\ UNCHANGED globals

\* A fork that does not go through libc (clone, the raw system call),
\* followed into the child: no handler runs, whether installed or not.
RawFork(t) ==
  /\ pc[t] = "idle"
  /\ forks < MaxForks
  /\ hsakmt_mutex' = IF hsakmt_mutex = Unlocked THEN Unlocked ELSE OwnerGone
  /\ cur_pid' = cur_pid + 1
  /\ forks' = forks + 1
  /\ pc' = [u \in Threads |-> "idle"]
  /\ last' = Observed("fork_raw", Session, "none")
  /\ run' = RunBroken
  /\ fresh' = TRUE
  /\ since' = "none"
  /\ UNCHANGED globals

Next ==
  \E t \in Threads :
    \/ LockOpen(t)
    \/ OpenKFD(t)
    \/ LockClose(t)
    \/ CloseKFD(t)
    \/ prepare_fork_handler(t)
    \/ parent_fork_handler(t)
    \/ child_fork_handler(t)
    \/ fork_before_atfork(t)
    \/ RawFork(t)

Spec == Init /\ [][Next]_vars

\* ------------------------------------------- init_vars_from_env on its own
\* The environments init_vars_from_env is applied to in SpecCfg.
Force(maj, mnr, stp, dgpu, name, fam) ==
  Text(<<Num(maj), Num(mnr), Num(stp), Num(dgpu), Word(name), Num(fam)>>)
CfgForces ==
  {Unset,
   Force(10, 1, 0, 1, "Navi10", 14),
   Force(9, 0, 6, 0, "Vega20", 11),
   Text(<<Num(10), Num(1), Num(0), Num(1), Word("Navi10")>>),
   Text(<<Num(10), Num(1), Num(0), Num(1)>>),
   Text(<<Num(9), Num(0), Num(6), Num(0), Word("Vega20"), Num(11),
          Word("extra")>>),
   Text(<<Num(10), Num(1), Num(0), Num(1), Word("Navi10"), Word("x")>>),
   Text(<<Word("navi")>>),
   Force(MAJOR_MAX + 1, 1, 0, 1, "Big", 14),
   Force(MAJOR_MAX, MINOR_MAX + 1, 0, 1, "Big", 14),
   Force(MAJOR_MAX, MINOR_MAX, STEP_MAX + 1, 1, "Big", 14),
   Force(MAJOR_MAX, MINOR_MAX, STEP_MAX, 2, "Big", 14),
   Force(MAJOR_MAX, MINOR_MAX, STEP_MAX, 1, "Last", CHIP_LAST),
   Force(MAJOR_MAX, MINOR_MAX, STEP_MAX, 1, "Top", CHIP_LAST - 1)}
CfgEnvs ==
  [debug : {Unset, Text(<<Num(HSAKMT_DEBUG_LEVEL_ERR)>>),
            Text(<<Num(HSAKMT_DEBUG_LEVEL_DEBUG + 1)>>), Text(<<Word("all")>>)},
   zfb   : {Unset, Text(<<Num(1)>>)},
   force : CfgForces]

\* One call of init_vars_from_env on the configuration left by the calls
\* before it; last holds the call's environment, status and the
\* configuration it found.
LoadCfg ==
  \E e \in CfgEnvs :
    \E r \in {init_vars_from_env(e, cfg)} :
      /\ cfg' = r.cfg
      /\ last' = [op |-> "init_vars_from_env", result |-> r.status,
                  env |-> e, pre |-> cfg]
      /\ UNCHANGED <<kfd_open_count, kfd_fd, parent_pid, hsakmt_forked,
                     atfork_installed, hsakmt_mutex, cur_pid, forks, openFds,
                     badClose, dblOpen, pc, run, fresh, since>>

NextCfg == LoadCfg

SpecCfg == Init /\ [][NextCfg]_vars

\* ------------------------------------------------------------------ claims
IsError(r) == r \notin {SUCCESS, ALREADY_OPENED}

\* The step just taken is the return of hsaKmtOpenKFD / hsaKmtCloseKFD.
OpenReturns  == \E t \in Threads : pc[t] = "open"  /\ last'.op = "open"
CloseReturns == \E t \in Threads : pc[t] = "close" /\ last'.op = "close"

\* C1: from a closed session, with no failing collaborator and no fork, N
\* open() calls followed by N close() calls on one thread call open(2) once
\* (in the first open) and close(2) once (in the N-th close); the first
\* open returns SUCCESS, the others KERNEL_ALREADY_OPENED, every close
\* SUCCESS, and kfd_open_count is 0 at the end.
C1_OneOpenOneClose ==
  (run.shape # "broken" /\ run.n >= 1) =>
    /\ run.ok
    /\ run.devOpens = 1
    /\ kfd_open_count = run.n - run.m
    /\ run.devCloses = (IF run.m = run.n THEN 1 ELSE 0)

C1_Witness == run.shape = "closes" /\ run.n = 2 /\ run.m = 2

\* C2: an open() that returns an error leaves kfd_open_count at 0 and no
\* descriptor recorded.
C2_FailedOpenLeavesClosed ==
  (last.op = "open" /\ IsError(last.result)) =>
    (kfd_open_count = 0 /\ kfd_fd = 0)

\* C3: the first open() completed in a forked child, when it succeeds,
\* returns SUCCESS with kfd_open_count = 1 after the reset of the inherited
\* state, a new open(2), a new topology query and the init chain.
C3_ChildReopens ==
  (last.op = "open" /\ last.fresh /\ ~IsError(last.result)) =>
    /\ last.result = SUCCESS
    /\ kfd_open_count = 1
    /\ last.pre_count > 0 => Called(last.trace, "fmm_clear_all_mem")
    /\ \A f \in {"open", "topology_sysfs_get_system_props",
                 "fmm_init_process_apertures", "init_process_doorbells",
                 "init_device_debugging_memory", "init_counter_props"} :
         Calls(last.trace, f) = 1

\* C4: with two threads and no fork, kfd_open_count is never negative, the
\* device is never opened while a descriptor from an earlier open is still
\* open, and close(2) is never called on a descriptor that is already closed.
C4_NoDoubleOpenClose ==
  forks = 0 => (kfd_open_count >= 0 /\ ~dblOpen /\ badClose = {})

\* C5: while the session lock is free, kfd_open_count > 0 exactly when the
\* device descriptor is open, and kfd_open_count = 0 exactly when no
\* descriptor is recorded.
C5_CountIffHandle ==
  hsakmt_mutex = Unlocked =>
    /\ (kfd_open_count > 0) <=> (openFds # {})
    /\ (kfd_open_count = 0) <=> (kfd_fd = 0)

\* C6: hsaKmtCloseKFD entered with kfd_open_count = 0 returns
\* KERNEL_IO_CHANNEL_NOT_OPENED, calls nothing, and changes none of
\* kfd_open_count, kfd_fd, parent_pid, hsakmt_forked and the descriptors.
C6_CloseWhenNotOpen ==
  [][(CloseReturns /\ kfd_open_count = 0) =>
       /\ last'.result = NOT_OPENED
       /\ last'.trace = <<>>
       /\ UNCHANGED <<kfd_open_count, kfd_fd, parent_pid, hsakmt_forked,
                      openFds, badClose>>]_vars

C6_Witness ==
  last.op = "close" /\ last.result = NOT_OPENED /\ last.pre_count = 0

\* C7 as stated: an open() that returns after an earlier open() call of the
\* same process, with no close() and no fork in between, returns
\* KERNEL_ALREADY_OPENED, adds exactly 1 to kfd_open_count and calls nothing.
C7_SecondOpen_AnyEarlier ==
  [][(OpenReturns /\ since # "none") =>
       /\ last'.result = ALREADY_OPENED
       /\ kfd_open_count' = kfd_open_count + 1
       /\ last'.trace = <<>>]_vars

\* C7 amended: the same, when an earlier open() returned SUCCESS or
\* KERNEL_ALREADY_OPENED.
C7_SecondOpen_AfterSuccess ==
  [][(OpenReturns /\ since = "ok") =>
       /\ last'.result = ALREADY_OPENED
       /\ kfd_open_count' = kfd_open_count + 1
       /\ last'.trace = <<>>]_vars

C7_Witness ==
  /\ last.op = "open" /\ last.result = ALREADY_OPENED
  /\ last.pre_count = 1 /\ kfd_open_count = 2 /\ forks = 0

\* The calls made after the last call of f.
RECURSIVE After(_, _)
After(trace, f) ==
  IF ~Called(trace, f) THEN trace
  ELSE After(Tail(trace), f)

\* The init function of each stage of the chain, in order.
StageInit ==
  [apertures |-> "fmm_init_process_apertures",
   doorbells |-> "init_process_doorbells",
   debug     |-> "init_device_debugging_memory",
   counters  |-> "init_counter_props"]

\* What the rollback of a failure at stage k is to call after the failing
\* init: the teardowns of the earlier stages, latest first, then close(2).
Rollback(k) ==
  CASE k = "apertures" -> <<"close">>
    [] k = "doorbells" -> <<"fmm_destroy_process_apertures", "close">>
    [] k = "debug"     -> <<"destroy_process_doorbells",
                            "fmm_destroy_process_apertures", "close">>
    [] k = "counters"  -> <<"destroy_device_debugging_memory",
                            "destroy_process_doorbells",
                            "fmm_destroy_process_apertures", "close">>

\* The open() just returned released, with one close(2), the descriptor it
\* had acquired.
ClosedOwnFd ==
  LET t == last.trace IN
  /\ Calls(After(t, "open"), "close") = 1
  /\ t[Len(t)] = <<"close", kfd_fd>>
  /\ kfd_fd \notin openFds

ErrorOf(f) ==
  CASE f = "cfg"       -> {ERROR}
    [] f = "dev"       -> {NOT_OPENED}
    [] f = "topology"  -> {E_TOPOLOGY}
    [] f = "apertures" -> {E_APERTURES}
    [] f = "doorbells" -> {E_DOORBELLS}
    [] OTHER           -> {ERROR, NOT_OPENED, E_TOPOLOGY, E_APERTURES,
                           E_DOORBELLS}

FieldsInvalid(f) ==
  \/ Len(f) # 6
  \/ \E i \in {1, 2, 3, 4, 6} : i <= Len(f) /\ ~f[i].num
  \/ (Len(f) >= 1 /\ f[1].v > MAJOR_MAX)
  \/ (Len(f) >= 2 /\ f[2].v > MINOR_MAX)
  \/ (Len(f) >= 3 /\ f[3].v > STEP_MAX)
  \/ (Len(f) >= 4 /\ f[4].v > 1)
  \/ (Len(f) >= 6 /\ f[6].v >= CHIP_LAST)

LoadDone == last.op = "init_vars_from_env"

LevelOf(e) ==
  IF e.debug.set /\ e.debug.txt[1].num
     /\ e.debug.txt[1].v >= HSAKMT_DEBUG_LEVEL_ERR
     /\ e.debug.txt[1].v <= HSAKMT_DEBUG_LEVEL_DEBUG
  THEN e.debug.txt[1].v ELSE HSAKMT_DEBUG_LEVEL_DEFAULT

C12_ForkWaitsForSection ==
  last.op \in {"fork_child", "fork_libc"} => hsakmt_mutex # OwnerGone

InSection(t) == pc[t] \in {"open", "close"}

\* C13: at most one thread is between the lock and the unlock of
\* hsaKmtOpenKFD / hsaKmtCloseKFD, that thread owns hsakmt_mutex, and
\* kfd_open_count, kfd_fd and parent_pid change, and hsakmt_forked is reset,
\* only in a step of the thread that owns the lock; the reset of
\* hsakmt_forked only in hsaKmtOpenKFD.
C13_Serialized ==
  /\ [](\A t, u \in Threads : (InSection(t) /\ InSection(u)) => t = u)
  /\ [](\A t \in Threads : InSection(t) => hsakmt_mutex = t)
  /\ [][(<<kfd_open_count, kfd_fd, parent_pid>>' #
           <<kfd_open_count, kfd_fd, parent_pid>>
         \/ (hsakmt_forked /\ ~hsakmt_forked')) =>
          \E t \in Threads :
            /\ InSection(t) /\ hsakmt_mutex = t /\ pc'[t] = "idle"
            /\ \A u \in Threads \ {t} : ~InSection(u)
            /\ (hsakmt_forked /\ ~hsakmt_forked') => pc[t] = "open"]_vars

\* A thread closes the session while the other thread has it open too.
C13_Witness ==
  \E t \in Threads :
    /\ pc[t] = "close" /\ hsakmt_mutex = t /\ kfd_open_count = 2
    /\ \E u \in Threads \ {t} : pc[u] = "idle"

\* C14: in a forked child that has not completed an open(), close() does not
\* decrement the inherited kfd_open_count, calls no teardown and does not
\* close the inherited descriptor.
C14_ChildCloseKeepsInherited ==
  (last.op = "close" /\ last.fresh) =>
    /\ kfd_open_count = last.pre_count
    /\ kfd_fd = last.pre_fd
    /\ last.trace = <<>>

\* C15: when an open() has returned SUCCESS, parent_pid is the pid of the
\* process that made the call.
C15_OwnerRecorded ==
  (last.op = "open" /\ last.result = SUCCESS) => parent_pid = cur_pid

\* The stages of the acquisition in the order of hsaKmtOpenKFD, and the
\* teardown function of each.
StageOrder == <<"apertures", "doorbells", "debug", "counters">>

StageDestroy ==
  [apertures |-> "fmm_destroy_process_apertures",
   doorbells |-> "destroy_process_doorbells",
   debug     |-> "destroy_device_debugging_memory",
   counters  |-> "destroy_counter_props"]

Reverse(q) == [i \in 1..Len(q) |-> q[Len(q) + 1 - i]]

IsStageInit(f) == \E k \in DOMAIN StageInit : StageInit[k] = f

\* C16: an open() that acquires the session initialises the stages in
\* StageOrder; the close() that takes kfd_open_count from 1 to 0 calls the
\* teardown of each stage once, in the reverse of that order, and after them
\* closes the descriptor once and clears kfd_fd; a close() that leaves the
\* count above 0 calls nothing and keeps the descriptor.
C16_ReverseTeardown ==
  /\ (last.op = "open" /\ last.result = SUCCESS) =>
       SelectSeq(Names(last.trace), IsStageInit)
         = [i \in 1..Len(StageOrder) |-> StageInit[StageOrder[i]]]
  /\ (last.op = "close" /\ last.pre_count = 1) =>
       /\ Names(last.trace)
            = [i \in 1..Len(StageOrder) |->
                 StageDestroy[Reverse(StageOrder)[i]]] \o <<"close">>
       /\ last.trace[Len(last.trace)] = <<"close", last.pre_fd>>
       /\ kfd_open_count = 0 /\ kfd_fd = 0
  /\ (last.op = "close" /\ last.pre_count > 1) =>
       /\ last.trace = <<>>
       /\ kfd_open_count = last.pre_count - 1 /\ kfd_fd = last.pre_fd

\* A last close tore the session down and no descriptor was closed twice.
C16_Witness ==
  /\ last.op = "close" /\ last.pre_count = 1 /\ last.result = SUCCESS
  /\ badClose = {} /\ dblOpen = FALSE
  /\ Len(last.trace) = 5 /\ kfd_fd = 0

ParentHandlerReturns ==
  \E t \in Threads : pc[t] = "atfork" /\ cur_pid' = cur_pid /\ pc'[t] = "idle"

ChildHandlerReturns ==
  \E t \in Threads :
    pc[t] = "atfork" /\ cur_pid' # cur_pid /\ last'.op = "fork_child"

\* C18: a fork() through the registered handlers ends, in the parent, with
\* hsakmt_mutex released and kfd_open_count, kfd_fd, parent_pid and
\* hsakmt_forked unchanged; in the child, with hsakmt_mutex unlocked and
\* hsakmt_forked true, and kfd_open_count, kfd_fd and parent_pid stay as
\* inherited until the child's next open() returns.
C18_ForkFrame ==
  [][/\ ParentHandlerReturns =>
          /\ hsakmt_mutex' = Unlocked
          /\ UNCHANGED <<kfd_open_count, kfd_fd, parent_pid, hsakmt_forked>>
     /\ ChildHandlerReturns =>
          /\ hsakmt_mutex' = Unlocked /\ hsakmt_forked'
          /\ UNCHANGED <<kfd_open_count, kfd_fd, parent_pid>>
     /\ (fresh /\ hsakmt_forked /\ ~OpenReturns) =>
          /\ hsakmt_forked'
          /\ UNCHANGED <<kfd_open_count, kfd_fd, parent_pid>>
    ]_vars

\* No open() call has been made since the process started or was forked.
NoOpenYet == fresh \/ (forks = 0 /\ parent_pid = -1)

\* C19 as stated: the configuration globals change only in the first open()
\* of a process (or of a forked child): no later open(), the open() after
\* the last close included, and no close() changes them.
C19_LoadedByFirstOpen ==
  [][cfg' # cfg => (OpenReturns /\ NoOpenYet)]_vars

\* C19, amended: the configuration globals change only in an open() that
\* finds the session closed (kfd_open_count = 0 after the fork check), and
\* every such open() loads them from the environment of that moment; an
\* open() that returns KERNEL_ALREADY_OPENED, a close() and the fork
\* handlers leave them unchanged.
C19_LoadedWhenClosed ==
  [][/\ cfg' # cfg =>
          /\ OpenReturns /\ last'.result # ALREADY_OPENED
          /\ Called(last'.trace, "init_vars_from_env")
          /\ \E e \in EnvSet : cfg' = init_vars_from_env(e, cfg).cfg
     /\ (OpenReturns /\ last'.result # ALREADY_OPENED) =>
          Called(last'.trace, "init_vars_from_env")
     /\ (OpenReturns /\ last'.result = ALREADY_OPENED) => cfg' = cfg
    ]_vars

\* In a process that never forked, an open() found the override of an
\* earlier load in place and the debug level of a later environment.
C19_Witness ==
  /\ last.op = "open" /\ last.pre_count = 0 /\ forks = 0
  /\ Called(last.trace, "init_vars_from_env")
  /\ cfg.force_asic = 1
  /\ cfg.hsakmt_debug_level = HSAKMT_DEBUG_LEVEL_DEFAULT

\* C20: in every reachable state, after a fork in the parent and in the
\* child too, hsakmt_mutex is free or owned by a thread of the process that
\* is inside hsaKmtOpenKFD, hsaKmtCloseKFD or fork(), each of which releases
\* it when it returns: no thread waits for the lock forever.
C20_LockReleasable ==
  \/ hsakmt_mutex = Unlocked
  \/ \E t \in Threads : hsakmt_mutex = t /\ pc[t] # "idle"

====
